---- MODULE Spec2Model ----
(***************************************************************************)
(* pyLSHash/storage.py: the storage adapter of the LSH index.  A factory,  *)
(* storage(storage_config, index), returns one of two backends with the    *)
(* same six methods: InMemoryStorage, a Python dict, and RedisStorage, a   *)
(* redis-py client on database number `index` of a Redis server.           *)
(*                                                                         *)
(* One behaviour of the model is the life of one hash table: its           *)
(* descriptor and its index are fixed inputs, the factory is called for    *)
(* them (again after a restart), and the caller, one thread, calls the     *)
(* methods of the handle it holds.  The Redis server is assumed reachable. *)
(***************************************************************************)
EXTENDS Integers, Sequences, FiniteSets, TLC

(***************************************************************************)
(* Bounds and input domains.                                               *)
(***************************************************************************)
MaxLen == 2            \* longest list the callers build at one key

\* Bucket keys are binary hashes (bytes); redis-py sends bytes unchanged.
Keys == {"h1", "h2"}
\* Table indexes (Redis database numbers).
Indexes == {0, 1}

(***************************************************************************)
(* Python values, tagged by their type.                                    *)
(***************************************************************************)
\* Every value carries the same fields, so that any two can be compared:
\* n for a number, s for text, q for the elements of a sequence.
Py(t, n, s, q) == [t |-> t, n |-> n, s |-> s, q |-> q]
PyNone == Py("None", 0, "", <<>>)
PyStr(s) == Py("str", 0, s, <<>>)
PyBytes(s) == Py("bytes", 0, s, <<>>)
PyInt(n) == Py("int", n, "", <<>>)
PyList(q) == Py("list", 0, "", q)
PyTuple(q) == Py("tuple", 0, "", q)
PySet(q) == Py("set", 0, "", q)
\* the result of dict.keys() / of KEYS: the keys, in no particular order
PyKeys(S) == [t |-> "keys", v |-> S]

\* Scalar values given to set_val ("the `val` must be a string").
Values == {PyStr("a"), PyBytes("a"), PyBytes("b")}
\* Entries given to append_val: a number, a tuple (what the index appends),
\* and a set, which json cannot serialize.
Entries == {PyInt(42), PyTuple(<<PyInt(7)>>), PySet(<<PyInt(7)>>)}

\* How a call ends.
Return(val) == [kind |-> "return", val |-> val]
Raise(exc) == [kind |-> "raise", val |-> Py("exc", 0, exc, <<>>)]

(***************************************************************************)
(* Python dict helpers: a dict is a function on the set of its keys.       *)
(***************************************************************************)
EmptyDict == <<>>
SetItem(d, k, val) == [x \in DOMAIN d \cup {k} |-> IF x = k THEN val ELSE d[x]]
DelItem(d, k) == [x \in DOMAIN d \ {k} |-> d[x]]

(***************************************************************************)
(* The value codec of the networked backend: json.dumps / json.loads.      *)
(* A JSON text is represented by the JSON value it denotes.                *)
(***************************************************************************)
Json(j, n, s, q) == [j |-> j, n |-> n, s |-> s, q |-> q]
JNull == Json("null", 0, "", <<>>)
JNumber(n) == Json("number", n, "", <<>>)
JString(s) == Json("string", 0, s, <<>>)
JArray(q) == Json("array", 0, "", q)

\* json.dumps accepts None, int, str, list and tuple (of such values); any
\* other type (set, bytes) makes it raise TypeError.
RECURSIVE json_serializable(_)
json_serializable(val) ==
    CASE val.t \in {"None", "int", "str"} -> TRUE
      [] val.t \in {"list", "tuple"} ->
            \A i \in 1..Len(val.q) : json_serializable(val.q[i])
      [] OTHER -> FALSE

\* json.dumps: lists and tuples are both written as a JSON array.
RECURSIVE json_dumps(_)
json_dumps(val) ==
    CASE val.t = "None" -> JNull
      [] val.t = "int" -> JNumber(val.n)
      [] val.t = "str" -> JString(val.s)
      [] val.t \in {"list", "tuple"} ->
            JArray([i \in 1..Len(val.q) |-> json_dumps(val.q[i])])

\* json.loads: a JSON array is read as a list.
RECURSIVE json_loads(_)
json_loads(text) ==
    CASE text.j = "null" -> PyNone
      [] text.j = "number" -> PyInt(text.n)
      [] text.j = "string" -> PyStr(text.s)
      [] text.j = "array" ->
            PyList([i \in 1..Len(text.q) |-> json_loads(text.q[i])])

(***************************************************************************)
(* InMemoryStorage: self.storage is one dict for scalars and lists alike.  *)
(* A method is an operator from the dict (and the arguments) to the dict   *)
(* after the call and the way the call ends.                               *)
(***************************************************************************)
Outcome(st, ret) == [storage |-> st, ret |-> ret]

InMemoryStorage_init == EmptyDict

\* keys() listing only the keys that hold a scalar.
InMemoryStorage_keys_scalars(self) ==
    Outcome(self, Return(PyKeys({k \in DOMAIN self : self[k].t # "list"})))

InMemoryStorage_keys(self) == Outcome(self, Return(PyKeys(DOMAIN self)))

InMemoryStorage_set_val(self, key, val) ==
    Outcome(SetItem(self, key, val), Return(PyNone))

\* self.storage[key]: KeyError when the key is absent.
InMemoryStorage_get_val(self, key) ==
    IF key \in DOMAIN self THEN Outcome(self, Return(self[key]))
    ELSE Outcome(self, Raise("KeyError"))

\* self.storage.setdefault(key, []).append(val): setdefault returns what the
\* dict holds at key; a str or bytes there has no append (AttributeError).
InMemoryStorage_append_val(self, key, val) ==
    LET d == IF key \in DOMAIN self THEN self ELSE SetItem(self, key, PyList(<<>>))
    IN IF d[key].t = "list"
       THEN Outcome(SetItem(d, key, PyList(Append(d[key].q, val))), Return(PyNone))
       ELSE Outcome(d, Raise("AttributeError"))

\* get_list written as list(self.storage.get(key, [])): always a new list.
InMemoryStorage_get_list_ref_copy(self, key) == "new"

\* Which object self.storage.get(key, []) returns: the one the dict holds
\* at key, or, for a missing key, a list made for this call.
InMemoryStorage_get_list_ref(self, key) ==
    IF key \in DOMAIN self THEN "held" ELSE "new"

\* get_list written as self.storage.setdefault(key, []): the read creates
\* the key.
InMemoryStorage_get_list_setdefault(self, key) ==
    IF key \in DOMAIN self THEN Outcome(self, Return(self[key]))
    ELSE Outcome(SetItem(self, key, PyList(<<>>)), Return(PyList(<<>>)))

\* get_list written as self.storage[key]: no default for a missing key.
InMemoryStorage_get_list_subscript(self, key) ==
    IF key \in DOMAIN self THEN Outcome(self, Return(self[key]))
    ELSE Outcome(self, Raise("KeyError"))

\* self.storage.get(key, []): whatever the dict holds at key, else a new [].
InMemoryStorage_get_list(self, key) ==
    IF key \in DOMAIN self THEN Outcome(self, Return(self[key]))
    ELSE Outcome(self, Return(PyList(<<>>)))

InMemoryStorage_clear(self) == Outcome(EmptyDict, Return(PyNone))

(***************************************************************************)
(* The Redis server as the client sees it: one dict per database, a key    *)
(* holding a string (bytes) or a list of byte strings (here JSON texts).   *)
(***************************************************************************)
RString(b) == [type |-> "string", s |-> b, q |-> <<>>]
RList(q) == [type |-> "list", s |-> "", q |-> q]

\* redis-py encodes str as UTF-8, leaves bytes alone, writes an int in decimal.
redis_encode(val) ==
    CASE val.t \in {"str", "bytes"} -> val.s
      [] val.t = "int" -> ToString(val.n)

\* KEYS pattern: "*" matches every key, a pattern without wildcards itself.
redis_match(pattern, key) == pattern = "*" \/ pattern = key

redis_keys(db, pattern) ==
    Outcome(db, Return(PyKeys({k \in DOMAIN db : redis_match(pattern, k)})))

\* SET replaces whatever the key held, of either type.
redis_set(db, key, val) ==
    Outcome(SetItem(db, key, RString(redis_encode(val))), Return(PyNone))

\* GET: nil (None) for a missing key, WRONGTYPE for a list; replies are bytes.
redis_get(db, key) ==
    IF key \notin DOMAIN db THEN Outcome(db, Return(PyNone))
    ELSE IF db[key].type = "string" THEN Outcome(db, Return(PyBytes(db[key].s)))
    ELSE Outcome(db, Raise("ResponseError"))

\* LPUSH in the place of RPUSH: the element goes to the head of the list.
redis_lpush(db, key, text) ==
    IF key \notin DOMAIN db THEN Outcome(SetItem(db, key, RList(<<text>>)), Return(PyNone))
    ELSE IF db[key].type = "list"
    THEN Outcome(SetItem(db, key, RList(<<text>>  \o db[key].q)), Return(PyNone))
    ELSE Outcome(db, Raise("ResponseError"))

\* RPUSH: creates the list, or pushes at its right end; WRONGTYPE for a string.
redis_rpush(db, key, text) ==
    IF key \notin DOMAIN db THEN Outcome(SetItem(db, key, RList(<<text>>)), Return(PyNone))
    ELSE IF db[key].type = "list"
    THEN Outcome(SetItem(db, key, RList(Append(db[key].q, text))), Return(PyNone))
    ELSE Outcome(db, Raise("ResponseError"))

\* LRANGE key 0 -1: the whole list, nothing for a missing key.
redis_lrange(db, key) ==
    IF key \notin DOMAIN db THEN Outcome(db, Return(<<>>))
    ELSE IF db[key].type = "list" THEN Outcome(db, Return(db[key].q))
    ELSE Outcome(db, Raise("ResponseError"))

\* FLUSHDB in the place of DEL key: every key of the database goes.
redis_flushdb(db, key) == EmptyDict

redis_delete(db, key) == DelItem(db, key)

(***************************************************************************)
(* RedisStorage: each method is one or more commands on the database the   *)
(* client was configured with.                                             *)
(***************************************************************************)
RedisStorage_keys(db, pattern) == redis_keys(db, pattern)

RedisStorage_set_val(db, key, val) == redis_set(db, key, val)

RedisStorage_get_val(db, key) == redis_get(db, key)

\* append_val written with json.dumps(val, default=str): an entry JSON
\* cannot write is pushed as the text of its str().
RedisStorage_append_val_default(db, key, val) ==
    IF json_serializable(val) THEN redis_rpush(db, key, json_dumps(val))
    ELSE redis_rpush(db, key, JString("{7}"))

\* json.dumps(val) is evaluated first: when it raises, nothing is sent.
RedisStorage_append_val(db, key, val) ==
    IF json_serializable(val) THEN redis_rpush(db, key, json_dumps(val))
    ELSE Outcome(db, Raise("TypeError"))

RedisStorage_get_list(db, key) ==
    LET r == redis_lrange(db, key)
    IN IF r.ret.kind = "raise" THEN r
       ELSE Outcome(db, Return(PyList([i \in 1..Len(r.ret.val) |-> json_loads(r.ret.val[i])])))

\* for key in self.storage.keys(): self.storage.delete(key)
RECURSIVE delete_each(_, _)
delete_each(db, ks) ==
    IF ks = {} THEN db
    ELSE LET key == CHOOSE k \in ks : TRUE
         IN delete_each(redis_delete(db, key), ks \ {key})

\* clear() leaving its loop after the first delete.
RedisStorage_clear_first(db) ==
    LET ks == redis_keys(db, "*").ret.val.v
    IN Outcome(IF ks = {} THEN db ELSE redis_delete(db, CHOOSE k \in ks : TRUE),
               Return(PyNone))

RedisStorage_clear(db) ==
    Outcome(delete_each(db, redis_keys(db, "*").ret.val.v), Return(PyNone))

(***************************************************************************)
(* The factory.  A descriptor is a dict from directive names to parameter  *)
(* dicts; `redis` is the module imported at the top of the file, or None    *)
(* (FALSE) when the import failed.                                         *)
(***************************************************************************)
NoParams == EmptyDict
RedisParams == [host |-> "localhost"]
Configs ==
    { [dict |-> NoParams],
      [redis |-> RedisParams],
      [redis |-> [host |-> "localhost", db |-> 0]],
      [dict |-> NoParams, redis |-> RedisParams],
      [mongo |-> NoParams],
      EmptyDict }

NoInstance == [name |-> "none", storage |-> EmptyDict]

InMemoryStorage(config) ==
    Return([name |-> "dict", storage |-> InMemoryStorage_init])

\* A constructor that does not look at the redis module: the missing client
\* shows at the first command.
RedisStorage_lazy(config, redis_module) ==
    Return([name |-> "redis", storage |-> config])

\* redis.StrictRedis(**config): a client for the database config['db'].
RedisStorage(config, redis_module) ==
    IF ~redis_module THEN Raise("ImportError")
    ELSE Return([name |-> "redis", storage |-> config])

\* The factory falling back to the in-memory backend instead of raising.
storage_fallback(config, idx, redis_module) ==
    IF "redis" \in DOMAIN config /\ "dict" \notin DOMAIN config
    THEN LET injected == SetItem(config, "redis", SetItem(config["redis"], "db", idx))
         IN [storage_config |-> injected,
             ret |-> RedisStorage(injected["redis"], redis_module)]
    ELSE [storage_config |-> config, ret |-> InMemoryStorage(NoParams)]

\* The factory writing db with setdefault: a db the descriptor already names
\* is kept.
storage_setdefault(config, idx, redis_module) ==
    IF "dict" \in DOMAIN config
    THEN [storage_config |-> config, ret |-> InMemoryStorage(config["dict"])]
    ELSE IF "redis" \in DOMAIN config
    THEN LET params == config["redis"]
             injected == SetItem(config, "redis",
                                 IF "db" \in DOMAIN params THEN params
                                 ELSE SetItem(params, "db", idx))
         IN [storage_config |-> injected,
             ret |-> RedisStorage(injected["redis"], redis_module)]
    ELSE [storage_config |-> config, ret |-> Raise("ValueError")]

\* storage(storage_config, index): the descriptor after the call (line 21
\* writes into the caller's dict) and the way the call ends.
storage(config, idx, redis_module) ==
    IF "dict" \in DOMAIN config
    THEN [storage_config |-> config, ret |-> InMemoryStorage(config["dict"])]
    ELSE IF "redis" \in DOMAIN config
    THEN LET injected == SetItem(config, "redis", SetItem(config["redis"], "db", idx))
         IN [storage_config |-> injected,
             ret |-> RedisStorage(injected["redis"], redis_module)]
    ELSE [storage_config |-> config, ret |-> Raise("ValueError")]

(***************************************************************************)
(* State.                                                                  *)
(***************************************************************************)
VARIABLES
    redis,            \* the redis module was imported (lines 6-9)
    storage_config,   \* the table's descriptor, as the caller holds it
    index,            \* the table's index
    self,             \* the backend instance the caller holds
    server,           \* the Redis server: one dict per database number
    call,             \* the last call made: its name and arguments
    ret,              \* how the last call ended
    hist              \* history of the calls, for stating the properties

vars == <<redis, storage_config, index, self, server, call, ret, hist>>

Call(op, args) == [op |-> op, args |-> args]

\* The dict the instance works on: its own, or its database on the server.
Database(inst, srv) ==
    IF inst.name = "dict" THEN inst.storage ELSE srv[inst.storage["db"]]

\* The methods, dispatched on the class of the instance.
keys(inst, srv, pattern) ==
    IF inst.name = "dict" THEN InMemoryStorage_keys(inst.storage)
    ELSE RedisStorage_keys(Database(inst, srv), pattern)

set_val(inst, srv, key, val) ==
    IF inst.name = "dict" THEN InMemoryStorage_set_val(inst.storage, key, val)
    ELSE RedisStorage_set_val(Database(inst, srv), key, val)

get_val(inst, srv, key) ==
    IF inst.name = "dict" THEN InMemoryStorage_get_val(inst.storage, key)
    ELSE RedisStorage_get_val(Database(inst, srv), key)

append_val(inst, srv, key, val) ==
    IF inst.name = "dict" THEN InMemoryStorage_append_val(inst.storage, key, val)
    ELSE RedisStorage_append_val(Database(inst, srv), key, val)

get_list(inst, srv, key) ==
    IF inst.name = "dict" THEN InMemoryStorage_get_list(inst.storage, key)
    ELSE RedisStorage_get_list(Database(inst, srv), key)

clear(inst, srv) ==
    IF inst.name = "dict" THEN InMemoryStorage_clear(inst.storage)
    ELSE RedisStorage_clear(Database(inst, srv))

\* The state after a method ended with outcome o.
Commit(o) ==
    /\ ret' = o.ret
    /\ IF self.name = "dict"
       THEN self' = [self EXCEPT !.storage = o.storage] /\ UNCHANGED server
       ELSE server' = [server EXCEPT ![self.storage["db"]] = o.storage] /\ UNCHANGED self
    /\ UNCHANGED <<redis, storage_config, index>>

(***************************************************************************)
(* History.  Per store (the dict of an InMemoryStorage, a database of the  *)
(* server): pure[k], only append_val has written k since k last held       *)
(* nothing, and apps[k], the entries those calls appended (calls that      *)
(* returned); lastSet[k], the value of the latest set_val on k since the   *)
(* last clear; everSet, the keys set_val was ever called on; touched, the  *)
(* keys written since the last clear; stored, the keys at which a write    *)
(* returned since the last clear.  Per instance: called, the keys this     *)
(* instance called set_val or append_val on since it was created or last   *)
(* cleared.  wiped: the keys that held a value when the last call, a       *)
(* clear(), was made.                                                      *)
(***************************************************************************)
NoValue == Py("unset", 0, "", <<>>)
NewStoreHist ==
    [pure |-> [k \in Keys |-> TRUE], apps |-> [k \in Keys |-> <<>>],
     lastSet |-> [k \in Keys |-> NoValue], everSet |-> {}, touched |-> {},
     stored |-> {}, called |-> {}, wiped |-> {}]

Init ==
    /\ redis \in BOOLEAN
    /\ storage_config \in Configs
    /\ index \in Indexes
    /\ self = NoInstance
    /\ server = [i \in Indexes |-> EmptyDict]
    /\ call = Call("none", <<>>)
    /\ ret = Return(PyNone)
    /\ hist = NewStoreHist

\* backend = storage(storage_config, index), at setup or after a restart.
\* A new InMemoryStorage is a new, empty store; a new RedisStorage is a new
\* client of the same database.
\* A factory whose RedisStorage starts from an empty database (FLUSHDB in
\* the constructor).
FactoryFlush ==
    LET r == storage(storage_config, index, redis)
    IN /\ storage_config' = r.storage_config
       /\ call' = Call("storage", <<index>>)
       /\ ret' = r.ret
       /\ self' = IF r.ret.kind = "return" THEN r.ret.val ELSE self
       /\ hist' = IF r.ret.kind = "raise" THEN hist
                  ELSE IF r.ret.val.name = "dict" THEN NewStoreHist
                  ELSE [hist EXCEPT !.called = {}, !.wiped = {}]
       /\ server' = IF r.ret.kind = "return" /\ r.ret.val.name = "redis"
                    THEN [server EXCEPT ![r.ret.val.storage["db"]] = EmptyDict]
                    ELSE server
       /\ UNCHANGED <<redis, index>>

Factory ==
    LET r == storage(storage_config, index, redis)
    IN /\ storage_config' = r.storage_config
       /\ call' = Call("storage", <<index>>)
       /\ ret' = r.ret
       /\ self' = IF r.ret.kind = "return" THEN r.ret.val ELSE self
       /\ hist' = IF r.ret.kind = "raise" THEN hist
                  ELSE IF r.ret.val.name = "dict" THEN NewStoreHist
                  ELSE [hist EXCEPT !.called = {}, !.wiped = {}]
       /\ UNCHANGED <<redis, index, server>>

HasInstance == self.name # "none"

\* keys() on either backend, keys(pattern) on the networked one.
KeysCall ==
    /\ HasInstance
    /\ \E args \in {<<>>} \cup (IF self.name = "redis" THEN {<<"*">>, <<"h1">>} ELSE {}) :
          /\ call' = Call("keys", args)
          /\ Commit(keys(self, server, IF args = <<>> THEN "*" ELSE args[1]))
    /\ hist' = [hist EXCEPT !.wiped = {}]

SetVal ==
    /\ HasInstance
    /\ \E key \in Keys, val \in Values :
          /\ call' = Call("set_val", <<key, val>>)
          /\ Commit(set_val(self, server, key, val))
          /\ hist' = [hist EXCEPT !.pure[key] = FALSE, !.apps[key] = <<>>,
                                  !.lastSet[key] = val,
                                  !.everSet = @ \cup {key},
                                  !.touched = @ \cup {key},
                                  !.stored = @ \cup {key},
                                  !.called = @ \cup {key},
                                  !.wiped = {}]

GetVal ==
    /\ HasInstance
    /\ \E key \in Keys :
          /\ call' = Call("get_val", <<key>>)
          /\ Commit(get_val(self, server, key))
    /\ hist' = [hist EXCEPT !.wiped = {}]

\* The callers stop appending to a list that has MaxLen entries.
ListLen(inst, srv, key) ==
    LET db == Database(inst, srv)
    IN IF key \notin DOMAIN db THEN 0
       ELSE IF inst.name = "dict"
       THEN (IF db[key].t = "list" THEN Len(db[key].q) ELSE 0)
       ELSE (IF db[key].type = "list" THEN Len(db[key].q) ELSE 0)

AppendVal ==
    /\ HasInstance
    /\ \E key \in Keys, val \in Entries :
          LET o == append_val(self, server, key, val)
              done == o.ret.kind = "return"
          IN /\ ListLen(self, server, key) < MaxLen
             /\ call' = Call("append_val", <<key, val>>)
             /\ Commit(o)
             /\ hist' = [hist EXCEPT
                           !.apps[key] = IF done /\ hist.pure[key] THEN Append(@, val) ELSE @,
                           !.touched = @ \cup {key},
                           !.stored = IF done THEN @ \cup {key} ELSE @,
                           !.called = @ \cup {key},
                           !.wiped = {}]

GetList ==
    /\ HasInstance
    /\ \E key \in Keys :
          /\ call' = Call("get_list", <<key>>)
          /\ Commit(get_list(self, server, key))
    /\ hist' = [hist EXCEPT !.wiped = {}]

Clear ==
    /\ HasInstance
    /\ call' = Call("clear", <<>>)
    /\ Commit(clear(self, server))
    /\ hist' = [NewStoreHist EXCEPT !.everSet = hist.everSet,
                                    !.wiped = DOMAIN Database(self, server)]

Next == Factory \/ KeysCall \/ SetVal \/ GetVal \/ AppendVal \/ GetList \/ Clear

Spec == Init /\ [][Next]_vars

(***************************************************************************)
(* What the caller would get from a read in the current state.             *)
(***************************************************************************)
NowKeys == keys(self, server, "*").ret
NowVal(key) == get_val(self, server, key).ret
NowList(key) == get_list(self, server, key).ret
EmptyList == Return(PyList(<<>>))
ReturnsList(r) == r.kind = "return" /\ r.val.t = "list"
Raises(r, exc) == r.kind = "raise" /\ r.val.s = exc

\* C1: on a key that held nothing and was then written by append_val only,
\* get_list returns exactly the appended entries, in call order.
C1_AppendOrder ==
    HasInstance =>
        \A k \in Keys : hist.pure[k] => NowList(k) = Return(PyList(hist.apps[k]))

\* C2 as stated: a key this instance never wrote since it was created or
\* last cleared reads as the empty list.  (Stated of the runs in which
\* set_val was never called, so that no key holds a scalar.)
C2_NeverWrittenByInstance ==
    (HasInstance /\ hist.everSet = {}) =>
        \A k \in Keys \ hist.called : NowList(k) = EmptyList

\* C2, amended: a key nobody wrote in the store the instance works on (its
\* dict, or its database on the server) since that store was created or last
\* cleared reads as the empty list, without an error.
C2_NeverWrittenInStore ==
    HasInstance => \A k \in Keys \ hist.touched : NowList(k) = EmptyList

\* get_list was called on a key never written while the other key holds a value.
C2_Witness ==
    /\ HasInstance
    /\ call.op = "get_list" /\ call.args[1] \notin hist.touched
    /\ hist.stored # {}
    /\ ret = EmptyList

\* C3: get_val(k) returns the value of the most recent set_val on k.
C3_SetThenGet ==
    HasInstance =>
        \A k \in Keys : hist.lastSet[k] # NoValue => NowVal(k) = Return(hist.lastSet[k])

\* C4: get_val(k) fails with KeyError (KeyNotFound) whenever set_val was
\* never called on k.
C4_UnsetKeyNotFound ==
    HasInstance => \A k \in Keys \ hist.everSet : Raises(NowVal(k), "KeyError")

\* C5: right after clear(), keys() enumerates nothing and get_list(k) is
\* empty for every key.
C5_ClearEmpties ==
    (HasInstance /\ call.op = "clear") =>
        /\ NowKeys = Return(PyKeys({}))
        /\ \A k \in Keys : NowList(k) = EmptyList

\* clear() was called while both keys held a value.
C5_Witness == HasInstance /\ call.op = "clear" /\ hist.wiped = Keys

\* p is a prefix of q.
IsPrefix(p, q) == Len(p) <= Len(q) /\ SubSeq(q, 1, Len(p)) = p
\* One step that is neither a clear() nor the creation of a new instance: a
\* list get_list(k) returned before is a prefix of the list it returns after.
\* (Nothing is asked of a key whose list was empty before the step.)
C6_Step ==
    (HasInstance /\ call'.op \notin {"clear", "storage"}) =>
        \A k \in Keys :
            (ReturnsList(NowList(k)) /\ NowList(k).val.q # <<>>) =>
                /\ ReturnsList(NowList(k)')
                /\ IsPrefix(NowList(k).val.q, NowList(k)'.val.q)

\* C6: appends are monotonic: over every sequence of operations without a
\* clear(), the list returned by get_list(k) never shrinks and the earlier
\* list is a prefix of the later one.
C6_Monotonic == [][C6_Step]_vars

\* C7: get_list(k) never raises and returns a list in every state, the
\* entries appended at k, none if k was never appended to.
C7_GetListNeverFails ==
    HasInstance =>
        \A k \in Keys :
            /\ ReturnsList(NowList(k))
            /\ hist.pure[k] => Len(NowList(k).val.q) = Len(hist.apps[k])

\* The directives the descriptor names.
NamesDict == "dict" \in DOMAIN storage_config
NamesRedis == "redis" \in DOMAIN storage_config

ReturnedRedis ==
    /\ ret.val.name = "redis"
    /\ DOMAIN ret.val.storage = {"host", "db"}
    /\ ret.val.storage["host"] = "localhost"
    /\ ret.val.storage["db"] = index
    /\ storage_config["redis"] = ret.val.storage
ReturnedDict == ret.val.name = "dict" /\ ret.val.storage = EmptyDict

C10_KeysExact == HasInstance => NowKeys = Return(PyKeys(hist.stored))

\* keys() was called while one key held a scalar and the other a list.
C10_Witness ==
    /\ call.op = "keys" /\ call.args = <<>>
    /\ ret = Return(PyKeys(Keys))
    /\ \E k1, k2 \in Keys : hist.lastSet[k1] # NoValue /\ hist.apps[k2] # <<>>

(***************************************************************************)
(* Several tables on one server.  The owner of the tables calls the        *)
(* factory once per table index with the same descriptor, and uses the     *)
(* handle of one table at a time: `self` is the handle in use, `index` its  *)
(* table.  Here the scalars and entries are one each, so that the two      *)
(* databases can be filled independently.                                  *)
(***************************************************************************)
PartValues == {PyBytes("a")}
PartEntries == {PyInt(42)}
RedisConfigs == {[redis |-> RedisParams], [redis |-> [host |-> "localhost", db |-> 0]]}

PartInit ==
    /\ redis = TRUE
    /\ storage_config \in RedisConfigs
    /\ index \in Indexes
    /\ self = NoInstance
    /\ server = [i \in Indexes |-> EmptyDict]
    /\ call = Call("none", <<>>)
    /\ ret = Return(PyNone)
    /\ hist = NewStoreHist

\* storage(storage_config, i) for table i; its handle is the one used next.
OpenTable ==
    \E i \in Indexes :
        LET r == storage(storage_config, i, redis)
        IN /\ storage_config' = r.storage_config
           /\ index' = i
           /\ self' = r.ret.val
           /\ call' = Call("storage", <<i>>)
           /\ ret' = r.ret
           /\ UNCHANGED <<redis, server, hist>>

PartKeysCall ==
    HasInstance /\ call' = Call("keys", <<>>) /\ Commit(keys(self, server, "*"))
                /\ UNCHANGED hist

PartSetVal ==
    /\ HasInstance
    /\ \E key \in Keys, val \in PartValues :
          call' = Call("set_val", <<key, val>>) /\ Commit(set_val(self, server, key, val))
    /\ UNCHANGED hist

PartGetVal ==
    /\ HasInstance
    /\ \E key \in Keys :
          call' = Call("get_val", <<key>>) /\ Commit(get_val(self, server, key))
    /\ UNCHANGED hist

PartAppendVal ==
    /\ HasInstance
    /\ \E key \in Keys, val \in PartEntries :
          /\ ListLen(self, server, key) < MaxLen
          /\ call' = Call("append_val", <<key, val>>)
          /\ Commit(append_val(self, server, key, val))
    /\ UNCHANGED hist

PartGetList ==
    /\ HasInstance
    /\ \E key \in Keys :
          call' = Call("get_list", <<key>>) /\ Commit(get_list(self, server, key))
    /\ UNCHANGED hist

PartClear ==
    HasInstance /\ call' = Call("clear", <<>>) /\ Commit(clear(self, server))
                /\ UNCHANGED hist

PartNext ==
    \/ OpenTable \/ PartKeysCall \/ PartSetVal \/ PartGetVal
    \/ PartAppendVal \/ PartGetList \/ PartClear

SpecPart == PartInit /\ [][PartNext]_vars

\* The instance the factory gives for table j, and all that can be read
\* through it when the server is in state srv.
InstanceFor(j) == storage(storage_config, j, redis).ret.val
Seen(j, srv) ==
    [keys |-> keys(InstanceFor(j), srv, "*").ret,
     vals |-> [k \in Keys |-> get_val(InstanceFor(j), srv, k).ret],
     lists |-> [k \in Keys |-> get_list(InstanceFor(j), srv, k).ret]]

\* A call of a method of the handle in use changes nothing of what is read
\* through the instance of another table.
C11_Step ==
    (HasInstance /\ self' = self) =>
        \A j \in Indexes \ {index} : Seen(j, server') = Seen(j, server)

\* C11: partition isolation: no set_val, append_val or clear() made through
\* the RedisStorage of index i changes the result of keys(), get_val(k) or
\* get_list(k) through the RedisStorage of another index j, for any key k.
C11_Isolation == [][C11_Step]_vars

\* set_val was just called on a key that the database of another table
\* holds too, with a different content.
C11_Witness ==
    /\ HasInstance /\ call.op = "set_val"
    /\ \E j \in Indexes \ {index} :
          /\ call.args[1] \in DOMAIN server[j]
          /\ server[j][call.args[1]] # server[index][call.args[1]]
          /\ DOMAIN server[j] # DOMAIN server[index]

\* The factory is called again while a RedisStorage is in use, and returns
\* the new instance of the same table: every get_list(k) through the new
\* instance returns what it returned through the old one.
C12_Step ==
    (self.name = "redis" /\ call'.op = "storage" /\ ret'.kind = "return"
        /\ self'.name = "redis") =>
        \A k \in Keys : get_list(self', server', k).ret = NowList(k)

\* C12: persistence across handles: entries appended to key k through one
\* RedisStorage stay on the server, and a new RedisStorage for the same
\* table returns the same list from get_list(k) (a clear() in between
\* empties it as it empties it for the old instance).
C12_Persistence == [][C12_Step]_vars

\* A new RedisStorage was just returned, no method of it was called yet, and
\* a key holds entries appended through an earlier instance.
C12_Witness ==
    /\ call.op = "storage" /\ self.name = "redis" /\ hist.called = {}
    /\ \E k \in Keys :
          /\ hist.pure[k] /\ hist.apps[k] # <<>>
          /\ ReturnsList(NowList(k))
          /\ Len(NowList(k).val.q) = Len(hist.apps[k])

\* C14: round-trip law of the codec of RedisStorage: for every entry e that
\* json.dumps can serialize, append_val(k, e) followed by get_list(k) yields
\* a list whose last element equals e.
C14_RoundTrip ==
    (self.name = "redis" /\ call.op = "append_val" /\ ret.kind = "return") =>
        LET l == NowList(call.args[1])
        IN /\ ReturnsList(l)
           /\ l.val.q # <<>>
           /\ l.val.q[Len(l.val.q)] = call.args[2]

\* C15: when the redis module could not be imported, a factory call with a
\* descriptor that selects the networked backend raises ImportError
\* (BackendUnavailable) in the constructor: no instance is returned, so the
\* failure is not deferred to a first method call (no method is ever called).
C15_FailsAtConstruction ==
    (~redis /\ NamesRedis /\ ~NamesDict) =>
        /\ ~HasInstance
        /\ call.op \in {"none", "storage"}
        /\ call.op = "storage" => Raises(ret, "ImportError")

\* The factory was called for 'redis' without the redis module, and raised.
C15_Witness ==
    /\ ~redis /\ NamesRedis /\ ~NamesDict
    /\ call.op = "storage" /\ Raises(ret, "ImportError") /\ ~HasInstance

\* The keys of the store in use that were written by append_val only and
\* hold a list of at least one entry.
ListOnlyKeys == {k \in Keys : hist.pure[k] /\ hist.apps[k] # <<>>}

\* C16 as stated: on InMemoryStorage keys() returns the keys of scalars
\* only: a key that was only ever written by append_val is not in keys().
C16_ListKeysHidden ==
    self.name = "dict" => \A k \in ListOnlyKeys : k \notin NowKeys.val.v

\* C16: on InMemoryStorage keys() returns every key of the one dict, so a
\* key that was only ever written by append_val is in keys().
C16_ListKeysListed ==
    self.name = "dict" =>
        /\ NowKeys.kind = "return"
        /\ \A k \in ListOnlyKeys : k \in NowKeys.val.v
        /\ (call.op = "keys" /\ ret.kind = "return") => ret = NowKeys

\* keys() of an InMemoryStorage just returned a key written by append_val
\* only, and no key of a scalar.
C16_Witness ==
    /\ self.name = "dict" /\ call.op = "keys" /\ ret.kind = "return"
    /\ ListOnlyKeys # {}
    /\ ret.val.v = ListOnlyKeys

\* One call of keys(), get_val(k) or get_list(k): the dict of the
\* InMemoryStorage, every database of the server and the result of keys()
\* are the same after the call as before, whether it returned or raised.
C19_Step ==
    (HasInstance /\ call'.op \in {"keys", "get_val", "get_list"}) =>
        /\ self' = self
        /\ server' = server
        /\ keys(self', server', "*").ret = NowKeys

\* C19: reads are pure: keys(), get_val(k) and get_list(k) leave the stored
\* state unchanged whether they succeed or fail; get_list(k) on a key that
\* holds nothing does not create k.
C19_ReadsArePure == [][C19_Step]_vars

\* get_list(k) was just called on a key the store does not hold, while it
\* holds another key; k is still not held.
C19_Witness ==
    /\ HasInstance /\ call.op = "get_list" /\ ret = EmptyList
    /\ call.args[1] \notin DOMAIN Database(self, server)
    /\ Database(self, server) # EmptyDict

\* One call of append_val(k, e) on a RedisStorage.  With an entry json.dumps
\* cannot write, TypeError is raised and no database changes.  With one it
\* can write, on a key that holds nothing or a list, the call returns and
\* get_list(k) is the list of before with the decoded entry at its end.
C20_Step ==
    (self.name = "redis" /\ call'.op = "append_val") =>
        LET k == call'.args[1]
            e == call'.args[2]
        IN IF ~json_serializable(e)
           THEN Raises(ret', "TypeError") /\ server' = server /\ self' = self
           ELSE ReturnsList(NowList(k)) =>
                    /\ ret' = Return(PyNone)
                    /\ get_list(self', server', k).ret =
                           Return(PyList(Append(NowList(k).val.q, json_loads(json_dumps(e)))))
                    /\ \A j \in Keys \ {k} : get_list(self', server', j).ret = NowList(j)

\* C20: append_val(k, e) on RedisStorage with an entry the codec cannot
\* serialize raises TypeError (CodecError) before anything is sent: the list
\* at k and every other key are unchanged, and a later append_val(k, e2)
\* with a serializable e2 appends normally.
C20_FailedAppendSendsNothing == [][C20_Step]_vars

\* append_val of a set was just refused on a key that holds a list of
\* entries appended before.
C20_Witness ==
    /\ self.name = "redis" /\ call.op = "append_val"
    /\ ~json_serializable(call.args[2]) /\ Raises(ret, "TypeError")
    /\ ReturnsList(NowList(call.args[1]))
    /\ NowList(call.args[1]).val.q # <<>>

(***************************************************************************)
(* Several callers, one RedisStorage.  Each caller is a thread that calls  *)
(* the methods of the shared instance one after the other; a method call   *)
(* blocks until the server has replied, and the server executes the        *)
(* commands it receives one at a time, in the order of their arrival.  In  *)
(* these specifications `call` and `ret` hold, for every caller, the call  *)
(* it is in and the last result it got.                                    *)
(*                                                                         *)
(* The n-th entry a caller c appends is [c, n], so that every entry is     *)
(* told from every other one.  hist.issued[c] is the sequence of the keys  *)
(* of the append_val calls c made, in call order, hist.arrived[k] the      *)
(* entries of the RPUSH commands on k in the order the server executed     *)
(* them.                                                                   *)
(***************************************************************************)
Callers == {1, 2}
MaxCalls == 2

Position(op, args, pc) == [op |-> op, args |-> args, pc |-> pc]
Idle == Position("none", <<>>, "idle")
EntryOf(c, n) == PyList(<<PyInt(c), PyInt(n)>>)

\* The state after storage({'redis': {'host': 'localhost'}}, index).
SharedInit ==
    /\ redis = TRUE
    /\ index \in Indexes
    /\ storage_config = storage([redis |-> RedisParams], index, redis).storage_config
    /\ self = storage([redis |-> RedisParams], index, redis).ret.val
    /\ server = [i \in Indexes |-> EmptyDict]
    /\ call = [c \in Callers |-> Idle]
    /\ ret = [c \in Callers |-> Return(PyNone)]

AppendInit ==
    /\ SharedInit
    /\ hist = [issued |-> [c \in Callers |-> <<>>], arrived |-> [k \in Keys |-> <<>>]]

\* The reply of a command reaches caller c: the server is in the state the
\* command left and the method returns or raises.
Reply(c, o) ==
    /\ server' = [server EXCEPT ![self.storage["db"]] = o.storage]
    /\ ret' = [ret EXCEPT ![c] = o.ret]
    /\ UNCHANGED <<redis, storage_config, index, self>>

\* Caller c calls append_val(key, [c, n]): json.dumps is done and the RPUSH
\* is on its way.
AppendSend(c) ==
    /\ call[c].pc = "idle"
    /\ Len(hist.issued[c]) < MaxCalls
    /\ \E key \in Keys :
          /\ call' = [call EXCEPT ![c] =
                        Position("append_val", <<key, EntryOf(c, Len(hist.issued[c]) + 1)>>, "sent")]
          /\ hist' = [hist EXCEPT !.issued[c] = Append(@, key)]
    /\ UNCHANGED <<redis, storage_config, index, self, server, ret>>

\* The server executes the RPUSH of caller c, and c's append_val returns.
AppendServe(c) ==
    /\ call[c].op = "append_val" /\ call[c].pc = "sent"
    /\ Reply(c, append_val(self, server, call[c].args[1], call[c].args[2]))
    /\ call' = [call EXCEPT ![c].pc = "idle"]
    /\ hist' = [hist EXCEPT !.arrived[call[c].args[1]] = Append(@, call[c].args[2])]

\* Caller c calls get_list(key): one LRANGE.
SharedGetList(c) ==
    /\ call[c].pc = "idle"
    /\ \E key \in Keys :
          /\ call' = [call EXCEPT ![c] = Position("get_list", <<key>>, "idle")]
          /\ Reply(c, get_list(self, server, key))
    /\ UNCHANGED hist

AppendNext == \E c \in Callers : AppendSend(c) \/ AppendServe(c) \/ SharedGetList(c)

SpecAppend == AppendInit /\ [][AppendNext]_vars

\* The append_val calls of c that have returned, and the entries of those
\* on key k, in call order.
Returned(c) == Len(hist.issued[c]) - (IF call[c].pc = "sent" THEN 1 ELSE 0)
OwnEntries(c, k) ==
    LET RECURSIVE upto(_)
        upto(n) == IF n = 0 THEN <<>>
                   ELSE IF hist.issued[c][n] = k THEN Append(upto(n - 1), EntryOf(c, n))
                   ELSE upto(n - 1)
    IN upto(Returned(c))
FromCaller(q, c) ==
    LET RECURSIVE sel(_)
        sel(n) == IF n = 0 THEN <<>>
                  ELSE IF q[n].q[1] = PyInt(c) THEN Append(sel(n - 1), q[n])
                  ELSE sel(n - 1)
    IN sel(Len(q))

\* C13: concurrent append_val calls of several callers on one RedisStorage:
\* under every interleaving get_list(k) holds the entries of the appends on k
\* that have returned, each exactly once, in the order in which the pushes
\* arrived at the server, the entries of one caller in that caller's call
\* order; appends on another key leave the list of k alone.
C13_ConcurrentAppends ==
    \A k \in Keys :
        LET l == NowList(k)
        IN /\ ReturnsList(l)
           /\ l.val.q = hist.arrived[k]
           /\ \A i \in 1..Len(l.val.q) : l.val.q[i].q[1].n \in Callers
           /\ \A c \in Callers : FromCaller(l.val.q, c) = OwnEntries(c, k)

\* No call is in progress, and a key holds entries of both callers, an
\* entry of one between two entries of the other.
C13_Witness ==
    /\ \A c \in Callers : call[c].pc = "idle"
    /\ \E k \in Keys :
          LET q == NowList(k).val.q
          IN /\ Len(q) >= 3
             /\ q[1].q[1] # q[2].q[1]
             /\ q[3].q[1] = q[1].q[1]

(***************************************************************************)
(* clear() of a RedisStorage, command by command, beside another caller.   *)
(* The Clearer calls set_val and clear(); clear() sends KEYS *, and then   *)
(* one DEL for every key of the reply, in the order of the reply (any      *)
(* order: KEYS promises none).  The other caller calls set_val and keys()  *)
(* at any moment.                                                          *)
(*                                                                         *)
(* hist.enumerated is the reply to the KEYS of the last clear(), hist.late *)
(* the keys the other caller wrote since that reply and clear() did not    *)
(* delete since, hist.partial whether the other caller got, from a keys()  *)
(* during that clear(), some but not all of the enumerated keys and none   *)
(* else.                                                                   *)
(***************************************************************************)
Clearer == 1

Range(q) == {q[i] : i \in 1..Len(q)}
Orders(S) == {q \in UNION {[1..n -> S] : n \in {Cardinality(S)}} : Range(q) = S}

ClearInit ==
    /\ SharedInit
    /\ hist = [enumerated |-> {}, late |-> {}, partial |-> FALSE]

Clearing == call[Clearer].op = "clear" /\ call[Clearer].pc = "deleting"
Todo == IF Clearing THEN Range(call[Clearer].args[1]) ELSE {}

SharedSetVal(c) ==
    /\ call[c].pc = "idle"
    /\ \E key \in Keys, val \in Values :
          /\ call' = [call EXCEPT ![c] = Position("set_val", <<key, val>>, "idle")]
          /\ Reply(c, set_val(self, server, key, val))
          /\ hist' = IF c # Clearer /\ call[Clearer].op = "clear"
                     THEN [hist EXCEPT !.late = @ \cup {key}] ELSE hist

SharedKeys(c) ==
    /\ call[c].pc = "idle"
    /\ c # Clearer
    /\ call' = [call EXCEPT ![c] = Position("keys", <<>>, "idle")]
    /\ Reply(c, keys(self, server, "*"))
    /\ LET seen == keys(self, server, "*").ret.val.v
       IN hist' = IF Clearing /\ seen # {} /\ seen \subseteq hist.enumerated
                      /\ seen # hist.enumerated /\ hist.late = {}
                  THEN [hist EXCEPT !.partial = TRUE] ELSE hist

\* clear() is called and the reply to KEYS * arrives.
ClearKeys(c) ==
    /\ call[c].pc = "idle"
    /\ LET ks == redis_keys(Database(self, server), "*").ret.val.v
       IN /\ \E order \in Orders(ks) :
                call' = [call EXCEPT ![c] = Position("clear", <<order>>, "deleting")]
          /\ hist' = [enumerated |-> ks, late |-> {}, partial |-> FALSE]
    /\ UNCHANGED <<redis, storage_config, index, self, server, ret>>

\* The next DEL of the loop.
ClearDelete(c) ==
    /\ call[c].op = "clear" /\ call[c].pc = "deleting" /\ call[c].args[1] # <<>>
    /\ LET key == Head(call[c].args[1])
       IN /\ server' = [server EXCEPT ![self.storage["db"]] =
                            redis_delete(Database(self, server), key)]
          /\ call' = [call EXCEPT ![c].args = <<Tail(call[c].args[1])>>]
          /\ hist' = [hist EXCEPT !.late = @ \ {key}]
    /\ UNCHANGED <<redis, storage_config, index, self, ret>>

\* The loop is over: clear() returns.
ClearReturn(c) ==
    /\ call[c].op = "clear" /\ call[c].pc = "deleting" /\ call[c].args[1] = <<>>
    /\ call' = [call EXCEPT ![c].pc = "idle"]
    /\ ret' = [ret EXCEPT ![c] = Return(PyNone)]
    /\ UNCHANGED <<redis, storage_config, index, self, server, hist>>

ClearNext ==
    \/ \E c \in Callers : SharedSetVal(c) \/ SharedKeys(c)
    \/ ClearKeys(Clearer) \/ ClearDelete(Clearer) \/ ClearReturn(Clearer)

SpecClear == ClearInit /\ [][ClearNext]_vars

\* C17: clear() of RedisStorage is not atomic: it enumerates the keys and
\* then deletes them one by one.  From the reply to KEYS on, and until the
\* next call of the Clearer after clear() has returned, the database holds
\* the enumerated keys not deleted yet and the keys the other caller wrote
\* since and clear() did not delete after, and no other: between two DELs
\* the other caller sees a part of the enumerated keys, and a key it wrote
\* after clear() passed is there when clear() returns.
C17_ClearNotAtomic ==
    call[Clearer].op = "clear" =>
        /\ DOMAIN Database(self, server) = Todo \cup hist.late
        /\ Todo \subseteq hist.enumerated

\* clear() has returned; during it the other caller got from keys() a part
\* of the enumerated keys, and a key it wrote after the enumeration is in the
\* database.
C17_Witness ==
    /\ call[Clearer].op = "clear" /\ call[Clearer].pc = "idle"
    /\ hist.partial
    /\ hist.late # {}
    /\ hist.late \subseteq DOMAIN Database(self, server)

(***************************************************************************)
(* The caller of an InMemoryStorage changing what get_list returned.       *)
(* After a get_list(k) that returned a list the caller may append Marker   *)
(* to that list object, once or more, before it calls another method (so  *)
(* that the object is still the one the call returned); `ret` is the       *)
(* object as the caller sees it.                                           *)
(*                                                                         *)
(* hist.added[k]: Marker was appended to a list get_list(k) returned, and  *)
(* neither clear() nor set_val(k) was called since; hist.held[k]: the same *)
(* and k held a list when that get_list(k) was called.                     *)
(***************************************************************************)
Marker == PyStr("mine")

AliasInit ==
    /\ redis \in BOOLEAN
    /\ storage_config = [dict |-> NoParams]
    /\ index \in Indexes
    /\ self = storage(storage_config, index, redis).ret.val
    /\ server = [i \in Indexes |-> EmptyDict]
    /\ call = Call("storage", <<index>>)
    /\ ret = storage(storage_config, index, redis).ret
    /\ hist = [added |-> [k \in Keys |-> FALSE], held |-> [k \in Keys |-> FALSE]]

AliasSetVal ==
    \E key \in Keys, val \in PartValues :
        /\ call' = Call("set_val", <<key, val>>)
        /\ Commit(set_val(self, server, key, val))
        /\ hist' = [hist EXCEPT !.added[key] = FALSE, !.held[key] = FALSE]

AliasAppendVal ==
    /\ \E key \in Keys, val \in PartEntries :
          /\ ListLen(self, server, key) < MaxLen
          /\ call' = Call("append_val", <<key, val>>)
          /\ Commit(append_val(self, server, key, val))
    /\ UNCHANGED hist

AliasGetList ==
    /\ \E key \in Keys :
          call' = Call("get_list", <<key>>) /\ Commit(get_list(self, server, key))
    /\ UNCHANGED hist

AliasClear ==
    /\ call' = Call("clear", <<>>)
    /\ Commit(clear(self, server))
    /\ hist' = [added |-> [k \in Keys |-> FALSE], held |-> [k \in Keys |-> FALSE]]

\* returned = storage.get_list(key) ... returned.append(Marker)
CallerAppends ==
    /\ call.op \in {"get_list", "list.append"} /\ ReturnsList(ret)
    /\ Len(ret.val.q) < MaxLen
    /\ LET key == call.args[1]
           grown == PyList(Append(ret.val.q, Marker))
       IN /\ call' = Call("list.append", <<key, Marker>>)
          /\ ret' = Return(grown)
          /\ self' = IF InMemoryStorage_get_list_ref(self.storage, key) = "held"
                     THEN [self EXCEPT !.storage = SetItem(@, key, grown)]
                     ELSE self
          /\ hist' = [hist EXCEPT !.added[key] = TRUE,
                                  !.held[key] = @ \/ key \in DOMAIN self.storage]
    /\ UNCHANGED <<redis, storage_config, index, server>>

AliasNext ==
    AliasSetVal \/ AliasAppendVal \/ AliasGetList \/ AliasClear \/ CallerAppends

SpecAlias == AliasInit /\ [][AliasNext]_vars

HasMarker(r) == ReturnsList(r) /\ \E i \in 1..Len(r.val.q) : r.val.q[i] = Marker

\* C18 as stated: on InMemoryStorage, when the caller adds an element to a
\* list returned by get_list(k), every later get_list(k) includes it (here:
\* until clear() or set_val(k) is called).
C18_ReturnedListIsTheStores ==
    \A k \in Keys : hist.added[k] => HasMarker(NowList(k))

\* C18: on InMemoryStorage, for a key k that holds a list, get_list(k)
\* returns the store's own list: when the caller adds an element to it,
\* every later get_list(k) includes it, until clear() or set_val(k).
C18_HeldListIsTheStores ==
    \A k \in Keys : hist.held[k] => HasMarker(NowList(k))

\* The caller appended to a list get_list returned for a key holding a list,
\* and a later get_list of that key has just returned a list with the
\* appended element.
C18_Witness ==
    /\ call.op = "get_list" /\ hist.held[call.args[1]]
    /\ HasMarker(ret)
    /\ ret = NowList(call.args[1])

====
